---- MODULE Spec2Model ----
(***************************************************************************)
(* Model of streamlit_app.py: the publication-date resolver                *)
(* (standardize_datetime, the three extract_date_from_* functions,         *)
(* get_page_last_modified) and the batch loop get_news_links.              *)
(*                                                                         *)
(* Values.  A timestamp is [k |-> "ts", wall, tz, off]: wall is the        *)
(* wall-clock reading in hours, tz says whether it carries a UTC offset,   *)
(* off is that offset in hours (0 when tz is FALSE).  The absolute instant *)
(* of a timezone-aware timestamp is wall - off.  A string is               *)
(* [k |-> "str", body, wall, tz, off]: body is "empty" (the string ""),    *)
(* "nat" (one of the literals NaT/nan), "bad" (any text that is no date)   *)
(* or "date" (a date text, with the fields it spells).                     *)
(***************************************************************************)
EXTENDS Integers, Sequences, FiniteSets, TLC

VARIABLES pc, arg, ret, cell, symbols, si, links, li, news_data, warnings, df,
          searched

vars == <<pc, arg, ret, cell, symbols, si, links, li, news_data, warnings, df, searched>>

batchVars == <<symbols, si, links, li, news_data, warnings, df, searched>>

(* ---------------------------- bounds ----------------------------------- *)
MaxWall == 3

(* ---------------------------- values ----------------------------------- *)
None == [k |-> "None"]

NaT == [k |-> "NaT"]

Raised == [k |-> "raise"]

Ts(w, z, o) == [k |-> "ts", wall |-> w, tz |-> z, off |-> o]

Str(b, w, z, o) == [k |-> "str", body |-> b, wall |-> w, tz |-> z, off |-> o]

StrEmpty == Str("empty", 0, FALSE, 0)

StrNat == Str("nat", 0, FALSE, 0)

StrBad == Str("bad", 0, FALSE, 0)

StrDate(w, z, o) == Str("date", w, z, o)

Offsets == {0 - 5, 0, 1}

Walls == 0 .. MaxWall

Stamps == {Ts(w, FALSE, 0) : w \in Walls} \cup {Ts(w, TRUE, o) : w \in Walls, o \in Offsets}

DateStrings == {StrDate(t.wall, t.tz, t.off) : t \in Stamps}

(* pd.isnull / pd.notnull on a scalar. *)
isnull(v) == v.k \in {"None", "NaT"}

notnull(v) == ~isnull(v)

(* Python truthiness as used by `if last_modified:`, `if date:`,           *)
(* `if datetime_attr:` and `meta_tag.get('content')`: None and the empty   *)
(* string are false; NaT and every timestamp are true.                     *)
truthy(v) == ~(v.k = "None" \/ (v.k = "str" /\ v.body = "empty"))

(* pd.to_datetime on a scalar: None comes back as None, the empty string   *)
(* and the NaT literals give NaT, a date text gives the timestamp it       *)
(* spells, any other text raises, a timestamp is returned as it is.        *)
to_datetime(v) ==
  CASE v.k = "None" -> None
    [] v.k = "NaT" -> NaT
    [] v.k = "ts" -> v
    [] v.k = "str" /\ v.body \in {"empty", "nat"} -> NaT
    [] v.k = "str" /\ v.body = "date" -> Ts(v.wall, v.tz, v.off)
    [] OTHER -> Raised

(* Lines 28-33: a naive value is tagged UTC with its fields unchanged, an  *)
(* aware one is converted to UTC.  NaT has no tzinfo and NaT.replace is    *)
(* NaT.                                                                    *)
to_utc(t) ==
  IF t.k = "NaT" THEN NaT
  ELSE IF ~t.tz THEN Ts(t.wall, TRUE, 0)
  ELSE Ts(t.wall - t.off, TRUE, 0)

(* A plausible slip: replace(tzinfo=UTC) on every value, aware or not.     *)
standardize_datetime_retag(dt) ==
  IF isnull(dt) THEN NaT
  ELSE LET p == IF dt.k = "str" THEN to_datetime(dt) ELSE dt
       IN  IF p.k \in {"raise", "NaT"} THEN NaT ELSE Ts(p.wall, TRUE, 0)

(* A plausible slip: the naive branch left out, so a naive value escapes.  *)
standardize_datetime_naive(dt) ==
  IF isnull(dt) THEN NaT
  ELSE LET p == IF dt.k = "str" THEN to_datetime(dt) ELSE dt
       IN  IF p.k \in {"raise", "NaT"} THEN NaT
           ELSE IF ~p.tz THEN p ELSE Ts(p.wall - p.off, TRUE, 0)

standardize_datetime(dt) ==
  IF isnull(dt) THEN NaT
  ELSE LET p == IF dt.k = "str" THEN to_datetime(dt) ELSE dt
       IN  IF p.k = "raise" THEN NaT ELSE to_utc(p)

(* Line 219: lambda x: standardize_datetime(x) if pd.notnull(x) else NaT.  *)
ColumnEntry(x) == IF notnull(x) THEN standardize_datetime(x) ELSE NaT

(* ------------------- extract_date_from_json_ld ------------------------- *)
MaxBlocks == 2

Absent == [k |-> "absent"]

(* The wrapper for "this loop body fell through without returning".        *)
NoReturn == [k |-> "next"]

date_fields == <<"dateModified", "datePublished", "dateCreated", "uploadDate">>

DateFieldSet == {date_fields[i] : i \in 1 .. Len(date_fields)}

(* json.loads(script.string) followed by `data = data[0]` for a list.      *)
(* Malformed JSON and an empty list raise inside the outer try.            *)
BlockData(b) ==
  CASE b.k = "badjson" -> Raised
    [] b.k = "list" -> IF b.items = <<>> THEN Raised ELSE [k |-> "obj", o |-> b.items[1]]
    [] OTHER -> [k |-> "obj", o |-> b.o]

(* Lines 77-82: the first field that is present decides unless             *)
(* pd.to_datetime raises on its value; what to_datetime returns (None and  *)
(* NaT included) is returned at once.                                      *)
RECURSIVE ScanFields(_, _, _)
ScanFields(o, fields, i) ==
  IF i > Len(fields) THEN NoReturn
  ELSE IF o[fields[i]].k = "absent" THEN ScanFields(o, fields, i + 1)
  ELSE LET r == to_datetime(o[fields[i]])
       IN  IF r.k = "raise" THEN ScanFields(o, fields, i + 1) ELSE r

RECURSIVE ScanBlocks(_, _, _)
ScanBlocks(scripts, fields, j) ==
  IF j > Len(scripts) THEN None
  ELSE LET d == BlockData(scripts[j])
       IN  IF d.k = "raise" THEN ScanBlocks(scripts, fields, j + 1)
           ELSE LET r == ScanFields(d.o, fields, 1)
                IN  IF r.k = "next" THEN ScanBlocks(scripts, fields, j + 1) ELSE r

extract_date_from_json_ld(scripts) == ScanBlocks(scripts, date_fields, 1)

(* Inputs: every assignment of the four fields to absent, null, an         *)
(* unparseable text or a date text; the date text of field i of block j    *)
(* spells the hour 4*(j-1)+i, so that the winner is recognisable.          *)
FieldKinds == {"absent", "null", "bad", "date"}

FieldValue(kind, w) ==
  CASE kind = "absent" -> Absent
    [] kind = "null" -> None
    [] kind = "bad" -> StrBad
    [] OTHER -> StrDate(w, FALSE, 0)

FieldIndex(f) == CHOOSE i \in 1 .. Len(date_fields) : date_fields[i] = f

MkObject(kinds, j) ==
  [f \in DateFieldSet |-> FieldValue(kinds[f], Len(date_fields) * (j - 1) + FieldIndex(f))]

BlockKinds ==
  {[shape |-> "badjson"], [shape |-> "emptylist"]}
    \cup {[shape |-> "obj", kinds |-> ks] : ks \in [DateFieldSet -> FieldKinds]}
    \cup {[shape |-> "list", kinds |-> ks] : ks \in [DateFieldSet -> {"absent", "date"}]}

MkBlock(bk, j) ==
  CASE bk.shape = "badjson" -> [k |-> "badjson"]
    [] bk.shape = "emptylist" -> [k |-> "list", items |-> <<>>]
    [] bk.shape = "list" -> [k |-> "list", items |-> <<MkObject(bk.kinds, j)>>]
    [] OTHER -> [k |-> "obj", o |-> MkObject(bk.kinds, j)]

(* The documents of at most MaxBlocks blocks. *)
IsJsonLdDoc(doc) ==
  \E n \in 0 .. MaxBlocks : \E bks \in [1 .. n -> BlockKinds] :
    doc = [j \in 1 .. n |-> MkBlock(bks[j], j)]

(* ------------------- extract_date_from_meta_tags ----------------------- *)
MaxMetas == 2

meta_date_properties ==
  <<"article:modified_time", "article:published_time", "og:updated_time",
    "og:published_time", "lastmod", "pubdate", "date", "sailthru.date",
    "citation_publication_date", "dcterms.modified", "dcterms.created",
    "parsely-pub-date">>

(* soup.find('meta', {attr: prop}): the index of the first meta element    *)
(* whose attribute attr equals prop, 0 when there is none.                 *)
RECURSIVE FindMeta(_, _, _, _)
FindMeta(metas, attr, prop, i) ==
  IF i > Len(metas) THEN 0
  ELSE IF metas[i][attr] = prop THEN i
  ELSE FindMeta(metas, attr, prop, i + 1)

(* Line 107: find by property `or` find by name.  An element is always     *)
(* true, so the name attribute is consulted only when no element carries   *)
(* the property.                                                           *)
MetaTag(metas, prop) ==
  IF FindMeta(metas, "property", prop, 1) # 0
  THEN FindMeta(metas, "property", prop, 1)
  ELSE FindMeta(metas, "name", prop, 1)

RECURSIVE ScanMeta(_, _, _)
ScanMeta(metas, props, p) ==
  IF p > Len(props) THEN None
  ELSE LET t == MetaTag(metas, props[p])
       IN  IF t # 0 /\ metas[t].content.k # "absent" /\ truthy(metas[t].content)
           THEN LET r == to_datetime(metas[t].content)
                IN  IF r.k = "raise" THEN ScanMeta(metas, props, p + 1) ELSE r
           ELSE ScanMeta(metas, props, p + 1)

extract_date_from_meta_tags(metas) == ScanMeta(metas, meta_date_properties, 1)

(* Inputs: meta elements carrying one of three listed names in either      *)
(* attribute; the date text of element i spells the hour i.                *)
MetaKeys == {"article:modified_time", "article:published_time", "date"}

ContentKinds == {"absent", "empty", "bad", "nat", "date"}

ContentValue(kind, w) ==
  CASE kind = "absent" -> Absent
    [] kind = "empty" -> StrEmpty
    [] kind = "bad" -> StrBad
    [] kind = "nat" -> StrNat
    [] OTHER -> StrDate(w, FALSE, 0)

MetaKinds == [attr : {"property", "name"}, key : MetaKeys, content : ContentKinds]

MkMeta(mk, i) ==
  [property |-> IF mk.attr = "property" THEN mk.key ELSE "",
   name |-> IF mk.attr = "name" THEN mk.key ELSE "",
   content |-> ContentValue(mk.content, i)]

IsMetaDoc(doc) ==
  \E n \in 0 .. MaxMetas : \E mks \in [1 .. n -> MetaKinds] :
    doc = [i \in 1 .. n |-> MkMeta(mks[i], i)]

(* ----------------- extract_date_from_common_patterns ------------------- *)
MaxMatches == 2

(* The nine regular expressions of lines 118-129, by what they catch.      *)
patterns ==
  <<"datetime=", "published-date=", "class=date", "class=time", "data-date=",
    "datePublished:", "dateModified:", "iso-T", "slash-space">>

(* The markup text is the sequence, in document order, of the places where *)
(* some pattern matches: [pat, val] is a match of pattern pat whose        *)
(* captured text is val.  re.findall(pattern, html_text):                  *)
RECURSIVE findall(_, _, _)
findall(pat, text, i) ==
  IF i > Len(text) THEN <<>>
  ELSE IF text[i].pat = pat THEN <<text[i].val>> \o findall(pat, text, i + 1)
  ELSE findall(pat, text, i + 1)

RECURSIVE ScanMatches(_, _)
ScanMatches(matches, i) ==
  IF i > Len(matches) THEN NoReturn
  ELSE LET r == to_datetime(matches[i])
       IN  IF r.k = "raise" THEN ScanMatches(matches, i + 1) ELSE r

RECURSIVE ScanPatterns(_, _, _)
ScanPatterns(text, pats, p) ==
  IF p > Len(pats) THEN None
  ELSE LET r == ScanMatches(findall(pats[p], text, 1), 1)
       IN  IF r.k = "next" THEN ScanPatterns(text, pats, p + 1) ELSE r

extract_date_from_common_patterns(text) == ScanPatterns(text, patterns, 1)

(* Inputs: the capturing patterns can catch any non-empty text, the two    *)
(* digit patterns only digit groups (a date or not); the date text of      *)
(* match i spells the hour i.                                              *)
DigitPatterns == {"iso-T", "slash-space"}

MatchKinds ==
  {mk \in [pat : {patterns[p] : p \in 1 .. Len(patterns)}, val : {"bad", "nat", "date"}] :
     mk.pat \in DigitPatterns => mk.val # "nat"}

MkMatch(mk, i) == [pat |-> mk.pat, val |-> ContentValue(mk.val, i)]

IsText(text) ==
  \E n \in 0 .. MaxMatches : \E mks \in [1 .. n -> MatchKinds] :
    text = [i \in 1 .. n |-> MkMatch(mks[i], i)]

(* ---------------------- get_page_last_modified ------------------------- *)
(* A response is what requests.get gives for a URL: fail is "none" when    *)
(* the request succeeds with a 2xx status, else the way it fails; header   *)
(* is headers.get('last-modified'); scripts, metas, time are what the      *)
(* parsed document holds and text what the patterns match in the raw       *)
(* markup.                                                                 *)
NoTag == [k |-> "notag"]

TimeTag(dt, data) == [k |-> "time", datetime |-> dt, data |-> data]

(* tag.get(attr): None when the attribute is missing.                      *)
GetAttr(v) == IF v.k = "absent" THEN None ELSE v

(* Lines 153-159.  standardize_datetime never raises on a string, so the   *)
(* except clause is never entered.                                         *)
HeaderStage(resp) ==
  IF truthy(resp.header) THEN standardize_datetime(resp.header) ELSE NoReturn

(* Lines 167-169, 172-174, 177-179: `if date: return standardize(date)`.   *)
ReturnIfDate(date) == IF truthy(date) THEN standardize_datetime(date) ELSE NoReturn

JsonLdStage(resp) == ReturnIfDate(extract_date_from_json_ld(resp.scripts))

MetaStage(resp) == ReturnIfDate(extract_date_from_meta_tags(resp.metas))

PatternStage(resp) == ReturnIfDate(extract_date_from_common_patterns(resp.text))

(* Lines 182-189: the first time element, datetime `or` data-datetime.     *)
TimeTagStage(resp) ==
  IF resp.time.k = "notag" THEN NoReturn
  ELSE LET datetime_attr == IF truthy(GetAttr(resp.time.datetime))
                            THEN GetAttr(resp.time.datetime)
                            ELSE GetAttr(resp.time.data)
       IN  IF truthy(datetime_attr) THEN standardize_datetime(datetime_attr)
           ELSE NoReturn

stages == <<"header", "json_ld", "meta", "patterns", "time_tag">>

Stage(name, resp) ==
  CASE name = "header" -> HeaderStage(resp)
    [] name = "json_ld" -> JsonLdStage(resp)
    [] name = "meta" -> MetaStage(resp)
    [] name = "patterns" -> PatternStage(resp)
    [] OTHER -> TimeTagStage(resp)

RECURSIVE RunStages(_, _)
RunStages(resp, n) ==
  IF n > Len(stages) THEN None
  ELSE IF Stage(stages[n], resp).k = "next" THEN RunStages(resp, n + 1)
  ELSE Stage(stages[n], resp)

(* The whole function: a failed fetch is caught at line 193, printed, and  *)
(* None is returned.                                                       *)
get_page_last_modified(resp) ==
  IF resp.fail # "none" THEN None ELSE RunStages(resp, 1)

(* Inputs.  Each strategy's date text spells its own hour (header 1,       *)
(* JSON-LD 2 and 3, meta 4, patterns 5, time element 6), with and without  *)
(* an offset.                                                              *)
JsonObject(dm, dp) ==
  [k |-> "obj",
   o |-> [f \in DateFieldSet |->
            IF f = "dateModified" THEN dm ELSE IF f = "datePublished" THEN dp ELSE Absent]]

MetaElem(attr, key, content) ==
  [property |-> IF attr = "property" THEN key ELSE "",
   name |-> IF attr = "name" THEN key ELSE "",
   content |-> content]

PageHeaders == {None, StrEmpty, StrBad, StrDate(1, TRUE, 0)}

PageScripts ==
  { <<>>,
    <<[k |-> "badjson"]>>,
    <<JsonObject(StrDate(2, TRUE, 1), Absent)>>,
    <<JsonObject(None, StrDate(3, FALSE, 0))>>,
    <<JsonObject(StrEmpty, Absent)>> }

PageMetas ==
  { <<>>,
    <<MetaElem("property", "article:modified_time", StrBad)>>,
    <<MetaElem("name", "date", StrDate(4, FALSE, 0))>>,
    <<MetaElem("property", "article:modified_time", StrDate(4, TRUE, 1))>> }

PageTexts ==
  { <<>>,
    <<[pat |-> "datetime=", val |-> StrBad]>>,
    <<[pat |-> "iso-T", val |-> StrDate(5, FALSE, 0)]>>,
    <<[pat |-> "data-date=", val |-> StrDate(5, TRUE, 0 - 5)]>> }

PageTimes ==
  { NoTag,
    TimeTag(Absent, Absent),
    TimeTag(StrBad, Absent),
    TimeTag(StrEmpty, StrDate(6, FALSE, 0)),
    TimeTag(StrDate(6, TRUE, 1), Absent) }

Page(h, sc, m, tx, tm) ==
  [fail |-> "none", header |-> h, scripts |-> sc, metas |-> m, text |-> tx, time |-> tm]

(* The successfully fetched page with no date signal anywhere.             *)
PlainPage == Page(None, <<>>, <<>>, <<>>, NoTag)

FailedFetch(how) ==
  [fail |-> how, header |-> None, scripts |-> <<>>, metas |-> <<>>, text |-> <<>>,
   time |-> NoTag]

FetchFailures == {"timeout", "status", "connection"}

IsResponse(resp) ==
  \/ \E how \in FetchFailures : resp = FailedFetch(how)
  \/ \E h \in PageHeaders, sc \in PageScripts, m \in PageMetas, tx \in PageTexts,
        tm \in PageTimes : resp = Page(h, sc, m, tx, tm)

(* ---------------------- pure-function harness -------------------------- *)
BatchIdle ==
  /\ symbols = <<>>
  /\ si = 0
  /\ links = <<>>
  /\ li = 0
  /\ news_data = <<>>
  /\ warnings = <<>>
  /\ df = None
  /\ searched = <<>>

NormInputs == Stamps \cup DateStrings \cup {None, NaT, StrEmpty, StrNat, StrBad}

InitNorm ==
  /\ pc = "call"
  /\ arg \in NormInputs
  /\ ret = None
  /\ cell = None
  /\ BatchIdle

CallStandardize ==
  /\ pc = "call"
  /\ ret' = standardize_datetime(arg)
  /\ pc' = "returned"
  /\ UNCHANGED <<arg, cell, batchVars>>

(* The second normalisation, as get_news_links applies it to the column.   *)
ApplyColumn ==
  /\ pc = "returned"
  /\ cell' = ColumnEntry(ret)
  /\ pc' = "tabulated"
  /\ UNCHANGED <<arg, ret, batchVars>>

NextNorm == CallStandardize \/ ApplyColumn

SpecNorm == InitNorm /\ [][NextNorm]_vars

InitJsonLd ==
  /\ pc = "call"
  /\ IsJsonLdDoc(arg)
  /\ ret = None
  /\ cell = None
  /\ BatchIdle

CallJsonLd ==
  /\ pc = "call"
  /\ ret' = extract_date_from_json_ld(arg)
  /\ pc' = "returned"
  /\ UNCHANGED <<arg, cell, batchVars>>

NextJsonLd == CallJsonLd

SpecJsonLd == InitJsonLd /\ [][NextJsonLd]_vars

InitMeta ==
  /\ pc = "call"
  /\ IsMetaDoc(arg)
  /\ ret = None
  /\ cell = None
  /\ BatchIdle

CallMeta ==
  /\ pc = "call"
  /\ ret' = extract_date_from_meta_tags(arg)
  /\ pc' = "returned"
  /\ UNCHANGED <<arg, cell, batchVars>>

NextMeta == CallMeta

SpecMeta == InitMeta /\ [][NextMeta]_vars

InitPattern ==
  /\ pc = "call"
  /\ IsText(arg)
  /\ ret = None
  /\ cell = None
  /\ BatchIdle

CallPattern ==
  /\ pc = "call"
  /\ ret' = extract_date_from_common_patterns(arg)
  /\ pc' = "returned"
  /\ UNCHANGED <<arg, cell, batchVars>>

NextPattern == CallPattern

SpecPattern == InitPattern /\ [][NextPattern]_vars

(* One URL resolved step by step, position by position in                  *)
(* get_page_last_modified, then entered in the column as get_news_links    *)
(* does (line 219).                                                        *)
InitPage ==
  /\ pc = "fetch"
  /\ IsResponse(arg)
  /\ ret = None
  /\ cell = None
  /\ BatchIdle

(* Lines 150-151 and 193-195. *)
Fetch ==
  /\ pc = "fetch"
  /\ IF arg.fail # "none"
     THEN pc' = "returned" /\ ret' = None
     ELSE pc' = stages[1] /\ ret' = ret
  /\ UNCHANGED <<arg, cell, batchVars>>

StageIndex(name) == CHOOSE n \in 1 .. Len(stages) : stages[n] = name

(* The stage at pc either returns or hands over to the next one; after     *)
(* the last one line 191 returns None.                                     *)
StageStep(name) ==
  /\ IF Stage(name, arg).k # "next"
     THEN pc' = "returned" /\ ret' = Stage(name, arg)
     ELSE IF StageIndex(name) < Len(stages)
     THEN pc' = stages[StageIndex(name) + 1] /\ ret' = ret
     ELSE pc' = "returned" /\ ret' = None
  /\ UNCHANGED <<arg, cell, batchVars>>

TryHeader ==
  /\ pc = "header"
  /\ StageStep("header")

TryJsonLd ==
  /\ pc = "json_ld"
  /\ StageStep("json_ld")

TryMeta ==
  /\ pc = "meta"
  /\ StageStep("meta")

TryPatterns ==
  /\ pc = "patterns"
  /\ StageStep("patterns")

TryTimeTag ==
  /\ pc = "time_tag"
  /\ StageStep("time_tag")

NextPage ==
  \/ Fetch
  \/ TryHeader
  \/ TryJsonLd
  \/ TryMeta
  \/ TryPatterns
  \/ TryTimeTag
  \/ ApplyColumn

SpecPage == InitPage /\ [][NextPage]_vars

(* --------------------------- get_news_links ---------------------------- *)
MaxSymbols == 2

MaxLinks == 2

(* stocks.txt, in file order; the selection is a non-empty prefix of it    *)
(* (main calls get_news_links only under `if selected_stocks:`).           *)
StockList == <<"AAPL", "MSFT", "GOOG", "AMZN">>

(* The web: what each URL the search can return serves.                    *)
URLs == {"u_dated", "u_plain", "u_down"}

Web(url) ==
  CASE url = "u_dated" ->
         Page(None, <<>>, <<MetaElem("name", "date", StrDate(4, TRUE, 1))>>, <<>>, NoTag)
    [] url = "u_plain" -> PlainPage
    [] OTHER -> FailedFetch("timeout")

LinkLists == UNION {[1 .. n -> URLs] : n \in 0 .. MaxLinks}

(* A plausible slip: a row is kept only when a date was found.             *)
AppendRow_dated(rows, row) ==
  IF isnull(row.LastUpdated) THEN rows ELSE Append(rows, row)

(* Lines 208-212: news_data.append({...}).                                 *)
AppendRow(rows, row) == Append(rows, row)

(* Lines 216-219: the table keeps the rows in order, the column is         *)
(* normalised entry by entry.                                              *)
Frame(rows) ==
  [r \in 1 .. Len(rows) |->
     [Stock |-> rows[r].Stock, Link |-> rows[r].Link,
      LastUpdated |-> ColumnEntry(rows[r].LastUpdated)]]

(* searched is the record of what the search gave for each symbol handled  *)
(* so far (no links when it raised).                                       *)
Init ==
  /\ pc = "search"
  /\ \E n \in 1 .. MaxSymbols : symbols = SubSeq(StockList, 1, n)
  /\ si = 1
  /\ links = <<>>
  /\ li = 0
  /\ news_data = <<>>
  /\ warnings = <<>>
  /\ df = None
  /\ arg = None
  /\ ret = None
  /\ cell = None
  /\ searched = <<>>

(* Lines 203-204: the search returns its links.                            *)
SearchReturns ==
  /\ pc = "search"
  /\ si <= Len(symbols)
  /\ \E ls \in LinkLists :
       /\ links' = ls
       /\ searched' = Append(searched, ls)
  /\ li' = 1
  /\ pc' = "resolve"
  /\ UNCHANGED <<arg, ret, cell, symbols, si, news_data, warnings, df>>

(* Lines 213-214: the search raises; a warning, then the next symbol.      *)
SearchRaises ==
  /\ pc = "search"
  /\ si <= Len(symbols)
  /\ warnings' = Append(warnings, symbols[si])
  /\ searched' = Append(searched, <<>>)
  /\ si' = si + 1
  /\ UNCHANGED <<pc, arg, ret, cell, symbols, links, li, news_data, df>>

(* Lines 206-212: one link resolved and its row appended.                  *)
ResolveLink ==
  /\ pc = "resolve"
  /\ li <= Len(links)
  /\ news_data' = AppendRow(news_data,
                    [Stock |-> symbols[si], Link |-> links[li],
                     LastUpdated |-> get_page_last_modified(Web(links[li]))])
  /\ li' = li + 1
  /\ UNCHANGED <<pc, arg, ret, cell, symbols, si, links, warnings, df, searched>>

NextSymbol ==
  /\ pc = "resolve"
  /\ li > Len(links)
  /\ si' = si + 1
  /\ pc' = "search"
  /\ UNCHANGED <<arg, ret, cell, symbols, links, li, news_data, warnings, df, searched>>

(* Lines 216-221.  pd.DataFrame([]) has no column, so df['Last Updated']   *)
(* raises KeyError when no row was collected.                              *)
BuildFrame ==
  /\ pc = "search"
  /\ si > Len(symbols)
  /\ IF news_data = <<>>
     THEN pc' = "raised" /\ df' = df
     ELSE pc' = "returned" /\ df' = Frame(news_data)
  /\ UNCHANGED <<arg, ret, cell, symbols, si, links, li, news_data, warnings, searched>>

(* main, lines 274-291: the table, or the warning when it is empty.        *)
Display ==
  /\ pc = "returned"
  /\ pc' = IF df = <<>> THEN "no_news" ELSE "displayed"
  /\ UNCHANGED <<arg, ret, cell, symbols, si, links, li, news_data, warnings, df, searched>>

Next ==
  \/ SearchReturns
  \/ SearchRaises
  \/ ResolveLink
  \/ NextSymbol
  \/ BuildFrame
  \/ Display

Spec == Init /\ [][Next]_vars

(* --------------------- the extractors' contracts ----------------------- *)
(* A value parses as a date when it is a date text; Spelled is the         *)
(* timestamp the text spells.                                              *)
Parses(v) == v.k = "str" /\ v.body = "date"

Spelled(v) == Ts(v.wall, v.tz, v.off)

(* Scan order: by the first index, then by the second.                     *)
Before(a, b) == a[1] < b[1] \/ (a[1] = b[1] /\ a[2] < b[2])

FirstOf(S) == CHOOSE a \in S : \A b \in S : a = b \/ Before(a, b)

Inspected(b) == b.k = "obj" \/ (b.k = "list" /\ Len(b.items) > 0)

ObjectOf(b) == IF b.k = "obj" THEN b.o ELSE b.items[1]

(* <<j, i>>: block j parses as JSON and its field i has a parseable date.  *)
JsonCandidates(doc) ==
  {c \in (1 .. Len(doc)) \X (1 .. Len(date_fields)) :
     Inspected(doc[c[1]]) /\ Parses(ObjectOf(doc[c[1]])[date_fields[c[2]]])}

(* C7: extract_date_from_json_ld returns the value of the first field, in  *)
(* the first block in scan order, that is present with a value parsing as  *)
(* a date, and null only if no block has such a field.                     *)
C7_FirstParseableField ==
  pc = "returned" =>
    IF JsonCandidates(arg) = {} THEN isnull(ret)
    ELSE LET c == FirstOf(JsonCandidates(arg))
         IN  ret = Spelled(ObjectOf(arg[c[1]])[date_fields[c[2]]])

(* <<p, i>>: element i matches listed name p by property or by name and    *)
(* has non-empty content that parses as a date.                            *)
MetaCandidates(doc) ==
  {c \in (1 .. Len(meta_date_properties)) \X (1 .. Len(doc)) :
     /\ (doc[c[2]].property = meta_date_properties[c[1]]
           \/ doc[c[2]].name = meta_date_properties[c[1]])
     /\ Parses(doc[c[2]].content)}

(* C8: extract_date_from_meta_tags returns the content of the first        *)
(* element, in list order of the names, that matches by property or by     *)
(* name and has non-empty parseable content, and null only if no listed    *)
(* name has such an element.                                               *)
C8_FirstMatchingMeta ==
  pc = "returned" =>
    IF MetaCandidates(arg) = {} THEN isnull(ret)
    ELSE ret = Spelled(arg[FirstOf(MetaCandidates(arg))[2]].content)

(* <<p, i>>: place i is a match of pattern p whose text parses as a date.  *)
PatternCandidates(text) ==
  {c \in (1 .. Len(patterns)) \X (1 .. Len(text)) :
     text[c[2]].pat = patterns[c[1]] /\ Parses(text[c[2]].val)}

(* C9: extract_date_from_common_patterns returns the first match, in       *)
(* (pattern index, match position) order, that parses as a date, and null  *)
(* exactly when no match of any pattern parses.                            *)
C9_FirstParseableMatch ==
  pc = "returned" =>
    IF PatternCandidates(arg) = {} THEN isnull(ret)
    ELSE ret = Spelled(arg[FirstOf(PatternCandidates(arg))[2]].val)

(* ------------------------ the normalizer's contract -------------------- *)
Dated(v) == v.k = "ts" \/ Parses(v)

(* C10: standardize_datetime keeps the instant of a value with an offset   *)
(* (the wall clock shifted by minus the offset, at offset 0), keeps the    *)
(* wall clock of a naive value and tags it UTC, and the second             *)
(* normalisation of get_news_links leaves a non-null result unchanged.     *)
C10_InstantPreserved ==
  /\ (pc # "call" /\ Dated(arg)) =>
       /\ ret.k = "ts" /\ ret.tz /\ ret.off = 0
       /\ ret.wall = IF arg.tz THEN arg.wall - arg.off ELSE arg.wall
  /\ (pc = "tabulated" /\ notnull(ret)) => cell = ret

(* A date text with a non-zero offset went through both normalisations.    *)
C10_Witness ==
  /\ pc = "tabulated"
  /\ Parses(arg) /\ arg.tz /\ arg.off # 0
  /\ notnull(cell)

(* ------------------------ the pipeline's contract ---------------------- *)
Returned == pc \in {"returned", "tabulated"}

UtcOrNull(v) == isnull(v) \/ (v.k = "ts" /\ v.tz /\ v.off = 0)

(* C2: whatever get_page_last_modified returns, and whatever the column    *)
(* of get_news_links holds for it, is null or a timezone-aware timestamp   *)
(* at offset 0.                                                            *)
C2_UtcOrNull ==
  /\ Returned => UtcOrNull(ret)
  /\ pc = "tabulated" => UtcOrNull(cell)

(* The meta strategy found a naive date and it reached the column.         *)
C2_Witness ==
  /\ pc = "tabulated"
  /\ arg.fail = "none" /\ arg.header = None /\ arg.scripts = <<>>
  /\ arg.metas = <<MetaElem("name", "date", StrDate(4, FALSE, 0))>>
  /\ cell = Ts(4, TRUE, 0)

(* What each strategy yields: the timestamp it finds, when it finds one    *)
(* that parses.                                                            *)
AsYield(d) == IF d.k = "ts" THEN d ELSE NoReturn

TimeAttr(tag) ==
  IF tag.k = "notag" THEN None
  ELSE IF truthy(GetAttr(tag.datetime)) THEN tag.datetime ELSE GetAttr(tag.data)

Yield(name, resp) ==
  CASE name = "header" -> IF Parses(resp.header) THEN Spelled(resp.header) ELSE NoReturn
    [] name = "json_ld" -> AsYield(extract_date_from_json_ld(resp.scripts))
    [] name = "meta" -> AsYield(extract_date_from_meta_tags(resp.metas))
    [] name = "patterns" -> AsYield(extract_date_from_common_patterns(resp.text))
    [] OTHER -> IF Parses(TimeAttr(resp.time)) THEN Spelled(TimeAttr(resp.time))
                ELSE NoReturn

Yielding(resp) == {n \in 1 .. Len(stages) : Yield(stages[n], resp).k = "ts"}

Least(S) == CHOOSE n \in S : \A m \in S : n <= m

(* The same instant at offset 0 (a naive reading taken as UTC).            *)
Instant(t) == Ts(IF t.tz THEN t.wall - t.off ELSE t.wall, TRUE, 0)

(* C1: for a fetched response the returned date is the value of the        *)
(* highest-priority strategy, in the order header, JSON-LD, meta,          *)
(* patterns, time element, that yields a parseable date.                   *)
C1_Precedence ==
  (Returned /\ arg.fail = "none") =>
    IF Yielding(arg) = {} THEN isnull(ret)
    ELSE ret = Instant(Yield(stages[Least(Yielding(arg))], arg))

(* C3: a value that does not parse makes its strategy count as null and    *)
(* the next one is tried: the run never ends null while some strategy      *)
(* yields a parseable date.                                                *)
C3_ParseFailureFallsThrough ==
  (Returned /\ arg.fail = "none" /\ isnull(ret)) => Yielding(arg) = {}

(* C4: the value returned for a failed fetch differs from the value        *)
(* returned for a fetched page with no date signal.                        *)
C4_FailureDistinct ==
  (Returned /\ arg.fail # "none") => ret # get_page_last_modified(PlainPage)

(* -------------------------- the batch's contract ----------------------- *)
(* The links of symbol j handled so far.                                   *)
Handled(j) == IF pc = "resolve" /\ j = si THEN li - 1 ELSE Len(searched[j])

RECURSIVE Expected(_)
Expected(j) ==
  IF j = 0 THEN <<>>
  ELSE Expected(j - 1) \o [k \in 1 .. Handled(j) |-> <<symbols[j], searched[j][k]>>]

Finished == pc \in {"returned", "displayed", "no_news", "raised"}

(* C5: the rows are exactly one per link the search returned, in the order *)
(* of the symbols and of the links; a URL whose fetch fails gives a row    *)
(* with a null date and the later URLs are still resolved.                 *)
C5_RowsInOrder ==
  LET want == Expected(Len(searched))
  IN  /\ Len(news_data) = Len(want)
      /\ \A r \in 1 .. Len(want) :
           /\ r <= Len(news_data)
           /\ news_data[r].Stock = want[r][1]
           /\ news_data[r].Link = want[r][2]
           /\ Web(want[r][2]).fail # "none" => isnull(news_data[r].LastUpdated)
      /\ Finished => Len(searched) = Len(symbols)
      /\ pc \in {"returned", "displayed"} =>
           /\ Len(df) = Len(want)
           /\ \A r \in 1 .. Len(want) :
                df[r].Stock = want[r][1] /\ df[r].Link = want[r][2]

(* Two symbols; a failed fetch gave a null row and a later URL was still   *)
(* resolved to a date.                                                     *)
C5_Witness ==
  /\ pc = "displayed"
  /\ Len(symbols) = 2
  /\ \E r, q \in 1 .. Len(df) :
       /\ r < q
       /\ df[r].Link = "u_down" /\ isnull(df[r].LastUpdated)
       /\ df[q].Link = "u_dated" /\ notnull(df[q].LastUpdated)
       /\ df[r].Stock # df[q].Stock

(* C6: get_news_links returns a table without raising, also when no link   *)
(* at all was collected.                                                   *)
C6_NeverRaises == pc # "raised"

====
